---- MODULE Spec2Model ----
(***************************************************************************)
(* Realme Updates Tracker (src/tracker.py): record normalisation           *)
(* (parse_html), device registry (update_device), snapshot differencing    *)
(* (diff_yaml), archive accumulation (archive) and the run orchestration   *)
(* (main) over the files data/<region>/<region>.yml,                       *)
(* data/<region>/old_<region> and data/archive/<codename>.yml.             *)
(*                                                                         *)
(* Text is modelled as a sequence of tokens.  A token is an atomic piece   *)
(* of text; the separators the code splits on ("/", "_", ": ", " ", the   *)
(* newline) are tokens of their own, so str.split, str.strip, str.replace  *)
(* and the `in` substring test are computed as the code computes them, at  *)
(* token granularity.  "Unknown" is the one-token text <<"Unknown">>.      *)
(*                                                                         *)
(* Not modelled, because nothing in the program reads them back: the       *)
(* per-codename files data/<region>/<codename>.yml, data/latest.yml,       *)
(* data/archive/archive.yml, data/devices.yml and the git push.            *)
(***************************************************************************)
EXTENDS Integers, Sequences, FiniteSets, TLC

VARIABLES
    pc,         \* position of main: "idle" "scrape" "diff" "notify" "finish" "done" "crashed"
    runNo,      \* number of runs of main started so far
    idx,        \* index into Regions of the loop of main that is running
    cur,        \* cur[r]: the file data/<r>/<r>.yml
    old,        \* old[r]: the file data/<r>/old_<r>
    DEVICES,    \* the module-level dict DEVICES: codename -> "/"-joined names
    archiveFiles, \* the files data/archive/<codename>.yml: codename -> (version -> link)
    queue,      \* the part of `changes` the inner loop of main has not reached yet
    sent,       \* history: the updates handed to generate_message/tg_post in this run
    status,     \* the status code the last tg_post returned (0: none yet)
    changedRun, \* history: the updates diff_yaml returned in this run
    changedDone,\* history: the updates diff_yaml returned in the runs that completed
    observed,   \* history: the <<codename, version>> pairs of every snapshot written
    lastWrite,  \* history: lastWrite[r] = the last snapshot written for r, and by which run
    before,     \* history: lastWrite as it was when the running run started
    doneRuns,   \* history: the numbers of the runs that reached the end of main
    lastCall,   \* history: the arguments of the last update_device / archive call
    fin,        \* input of the function under test (pure-function specifications)
    fout,       \* its result
    fpc         \* "in" before the function under test is applied, "out" after

vars == <<pc, runNo, idx, cur, old, DEVICES, archiveFiles, queue, sent, status,
          changedRun, changedDone, observed, lastWrite, before, doneRuns,
          lastCall, fin, fout, fpc>>

(***************************************************************************)
(* Text primitives                                                         *)
(***************************************************************************)
Unknown == <<"Unknown">>

EmptyMap == [x \in {} |-> x]

\* the set of elements of a sequence
Range(s) == {s[i] : i \in 1..Len(s)}

\* s[from..] (Python s[from-1:])
Tail_from(s, from) == SubSeq(s, from, Len(s))

\* str.split(sep) for a one-token separator: always at least one part
RECURSIVE split(_, _)
split(s, sep) ==
    IF sep \notin Range(s) THEN <<s>>
    ELSE LET i == CHOOSE k \in 1..Len(s) : s[k] = sep /\ \A j \in 1..(k-1) : s[j] # sep
         IN  <<SubSeq(s, 1, i-1)>> \o split(Tail_from(s, i+1), sep)

\* str.strip(): drop the leading and the trailing blanks
RECURSIVE strip(_)
strip(s) ==
    IF s = <<>> THEN s
    ELSE IF Head(s) = " " THEN strip(Tail(s))
    ELSE IF s[Len(s)] = " " THEN strip(SubSeq(s, 1, Len(s)-1))
    ELSE s

\* str.replace('  ', ' '): non-overlapping pairs of blanks, left to right, one pass
RECURSIVE replace_2sp(_)
replace_2sp(s) ==
    IF Len(s) < 2 THEN s
    ELSE IF s[1] = " " /\ s[2] = " " THEN <<" ">> \o replace_2sp(Tail_from(s, 3))
    ELSE <<s[1]>> \o replace_2sp(Tail(s))

\* str.replace(a, b) where a is one token and b a text
RECURSIVE replace_tok(_, _, _)
replace_tok(s, a, b) ==
    IF s = <<>> THEN s
    ELSE (IF Head(s) = a THEN b ELSE <<Head(s)>>) \o replace_tok(Tail(s), a, b)

clean_text(text) == replace_2sp(strip(text))

\* len() of a text: the characters of its tokens
RECURSIVE str_len(_)
str_len(s) == IF s = <<>> THEN 0 ELSE Len(Head(s)) + str_len(Tail(s))

(***************************************************************************)
(* update_device                                                           *)
(***************************************************************************)
\* DEVICES after update_device(codename, device); D is DEVICES before
update_device(D, codename, device) ==
    IF codename \notin DOMAIN D
        THEN (codename :> device) @@ D                      \* except KeyError
    ELSE IF D[codename] # <<>> /\ device \notin Range(split(D[codename], "/"))
        THEN (codename :> (D[codename] \o <<"/">> \o device)) @@ D
    ELSE D

(***************************************************************************)
(* parse_html                                                              *)
(*                                                                         *)
(* A raw item (one div.software-item) is a record                          *)
(*   title, system : the text of h3.software-mobile-title, div.software-system *)
(*   fields        : the div.software-field nodes in document order, each  *)
(*                   [text |-> its text, span |-> <<text of its span>> or <<>>] *)
(*   download      : the data-href of a.software-button                    *)
(*   log           : get_text("\n", strip=True) of div.software-log        *)
(***************************************************************************)
\* tokens that match [A-Z0-9+]+ as a whole
CodeToks == {"A", "B"}

\* tokens that match [0-9]+(?:.|_)[A-Z]+(?:.|_)[0-9]+ as a whole
BuildToks == {"1.A.1", "1.A.2"}

\* tokens of digits, zero-padded as strftime pads them
DigitToks == {"2020", "01", "02"}

\* the token "(bullet)" stands for the glyph U+25CF
BulletToks == {"(bullet)", "*"}

\* re.search(r'([A-Z0-9+]+_[0-9]+(?:.|_)[A-Z]+(?:.|_)[0-9]+)', text): the
\* leftmost match as <<text>>, or <<>> for None
re_search_version(text) ==
    LET hits == {i \in 1..(Len(text)-2) :
                    text[i] \in CodeToks /\ text[i+1] = "_" /\ text[i+2] \in BuildToks}
    IN  IF hits = {} THEN <<>>
        ELSE LET i == CHOOSE k \in hits : \A j \in hits : k <= j
             IN  <<SubSeq(text, i, i+2)>>

\* lines 71-77: <<version, codename>>
parse_version(fields) ==
    IF Len(fields) < 1 THEN <<Unknown, Unknown>>                \* IndexError
    ELSE LET m == re_search_version(fields[1].text)
         IN  IF m = <<>> THEN <<Unknown, Unknown>>              \* AttributeError
             ELSE <<m[1], split(m[1], "_")[1]>>

\* datetime.strptime(date, "%Y/%m/%d") accepts date
strptime_ok(date) ==
    LET c == split(date, "/")
    IN  /\ Len(c) = 3
        /\ \A i \in 1..3 : Len(c[i]) = 1 /\ c[i][1] \in DigitToks
        /\ str_len(c[1]) = 4
        /\ str_len(c[2]) \in 1..2
        /\ str_len(c[3]) \in 1..2

\* strptime(date, "%Y/%m/%d").strftime("%d/%m/%Y")
reformat_date(date) ==
    LET c == split(date, "/") IN c[3] \o <<"/">> \o c[2] \o <<"/">> \o c[1]

\* lines 78-83: [exc, date]
parse_date(fields) ==
    IF Len(fields) < 2 THEN [exc |-> "", date |-> Unknown]      \* IndexError
    ELSE LET parts == split(strip(fields[2].text), ": ")
         IN  IF Len(parts) < 2 THEN [exc |-> "", date |-> Unknown]   \* IndexError
             ELSE LET date == strip(parts[2])
                  IN  IF str_len(split(date, "/")[1]) = 4
                          THEN IF strptime_ok(date)
                                   THEN [exc |-> "", date |-> reformat_date(date)]
                                   ELSE [exc |-> "ValueError", date |-> date]
                          ELSE [exc |-> "", date |-> date]

\* lines 84-86: [exc, size]
parse_size(fields) ==
    IF Len(fields) < 3 THEN [exc |-> "IndexError", size |-> <<>>]
    ELSE IF fields[3].span = <<>> THEN [exc |-> "AttributeError", size |-> <<>>]
    ELSE LET size == clean_text(fields[3].span[1])
         IN  [exc |-> "",
              size |-> IF size # <<>> /\ size[Len(size)] = "G"
                           THEN replace_tok(size, "G", <<"GB">>)
                           ELSE size]

\* lines 87-90
parse_md5(fields) ==
    IF Len(fields) < 4 THEN Unknown                             \* IndexError
    ELSE LET parts == split(strip(fields[4].text), ": ")
         IN  IF Len(parts) < 2 THEN Unknown ELSE parts[2]       \* IndexError

\* lines 66-69; the token "(zhenwo)" stands for the two glyphs U+771F U+6211
parse_title(text) == replace_tok(clean_text(text), "(zhenwo)", <<"realme", " ">>)

\* lines 93-99
RECURSIVE reflow(_)
reflow(lines) ==
    IF lines = <<>> THEN <<>>
    ELSE (IF Head(lines) # <<>> /\ Head(lines)[1] \in BulletToks
              THEN Head(lines) \o <<"\n">>
              ELSE <<"**">> \o Head(lines) \o <<"**:", "\n">>)
         \o reflow(Tail(lines))

parse_changelog(log) == reflow(IF log = <<>> THEN <<>> ELSE split(log, "\n"))

\* the body of the loop of parse_html for one item: [exc, update];
\* exc is "" when the body ran to the end, else the exception it raised
parse_item(item, region) ==
    LET vc == parse_version(item.fields)
        d  == parse_date(item.fields)
        s  == parse_size(item.fields)
        u  == [device    |-> parse_title(item.title),
               codename  |-> vc[2],
               region    |-> region,
               system    |-> clean_text(item.system),
               version   |-> vc[1],
               date      |-> d.date,
               size      |-> s.size,
               md5       |-> parse_md5(item.fields),
               download  |-> item.download,
               changelog |-> parse_changelog(item.log)]
    IN  IF d.exc # "" THEN [exc |-> d.exc, update |-> u]
        ELSE IF s.exc # "" THEN [exc |-> s.exc, update |-> u]
        ELSE [exc |-> "", update |-> u]

\* parse_html(html, region) started with DEVICES = D:
\* [exc, updates, devices]; on an exception, devices holds the registrations
\* of the items before the one that raised
RECURSIVE parse_loop(_, _, _, _)
parse_loop(html, region, updates, D) ==
    IF html = <<>> THEN [exc |-> "", updates |-> updates, devices |-> D]
    ELSE LET r == parse_item(Head(html), region)
         IN  IF r.exc # "" THEN [exc |-> r.exc, updates |-> updates, devices |-> D]
             ELSE parse_loop(Tail(html), region, Append(updates, r.update),
                             update_device(D, r.update.codename, r.update.device))

parse_html(html, region, D) == parse_loop(html, region, <<>>, D)

(***************************************************************************)
(* Files.  A file is [exists, data]; a file that does not exist makes      *)
(* open(..., 'r') raise FileNotFoundError.                                 *)
(***************************************************************************)
NoFile == [exists |-> FALSE, data |-> <<>>]

File(data) == [exists |-> TRUE, data |-> data]

(***************************************************************************)
(* diff_yaml                                                               *)
(***************************************************************************)
\* the zip comparison on the codename instead of the version
RECURSIVE zip_changed_codename(_, _)
zip_changed_codename(latest, prev) ==
    IF latest = <<>> \/ prev = <<>> THEN <<>>
    ELSE (IF Head(latest).codename # Head(prev).codename THEN <<Head(latest)>> ELSE <<>>)
         \o zip_changed_codename(Tail(latest), Tail(prev))

\* [new_ for new_, old_ in zip(latest, old) if not new_['version'] == old_['version']]
RECURSIVE zip_changed(_, _)
zip_changed(latest, prev) ==
    IF latest = <<>> \/ prev = <<>> THEN <<>>
    ELSE (IF Head(latest).version # Head(prev).version THEN <<Head(latest)>> ELSE <<>>)
         \o zip_changed(Tail(latest), Tail(prev))

\* [i["codename"] for i in snapshot]
RECURSIVE codenames_of(_)
codenames_of(snapshot) ==
    IF snapshot = <<>> THEN <<>>
    ELSE <<Head(snapshot).codename>> \o codenames_of(Tail(snapshot))

\* [i for codename in changes if codename == i["codename"]]: i once per match
RECURSIVE matches_of(_, _)
matches_of(i, changes) ==
    IF changes = <<>> THEN <<>>
    ELSE (IF Head(changes) = i.codename THEN <<i>> ELSE <<>>) \o matches_of(i, Tail(changes))

\* [i for i in latest for codename in changes if codename == i["codename"]]
RECURSIVE new_codename_records(_, _)
new_codename_records(latest, changes) ==
    IF latest = <<>> THEN <<>>
    ELSE matches_of(Head(latest), changes) \o new_codename_records(Tail(latest), changes)

\* the return value of diff_yaml: [none |-> TRUE] is None, else the list recs
ReturnNone == [none |-> TRUE, recs |-> <<>>]

ReturnList(recs) == [none |-> FALSE, recs |-> recs]

\* diff_yaml with a missing old_<filename> read as an empty list
diff_yaml_no_first_run(new, old_data) ==
    LET changes == codenames_of(new.data)
    IN  IF ~new.exists THEN ReturnNone
        ELSE IF new.data = <<>> THEN ReturnList(<<>>)
        ELSE IF ~old_data.exists
            THEN ReturnList(new_codename_records(new.data, changes))
        ELSE IF Len(new.data) = Len(old_data.data)
            THEN ReturnList(zip_changed(new.data, old_data.data))
        ELSE ReturnNone

\* diff_yaml(filename), given the two files it opens
diff_yaml(new, old_data) ==
    IF ~new.exists \/ ~old_data.exists THEN ReturnNone          \* first_run = True
    ELSE IF Len(new.data) = Len(old_data.data)
        THEN ReturnList(zip_changed(new.data, old_data.data))
    ELSE LET old_codenames == codenames_of(old_data.data)
             new_codenames == codenames_of(new.data)
             changes == SelectSeq(new_codenames, LAMBDA i : i \notin Range(old_codenames))
         IN  IF changes # <<>>
                 THEN ReturnList(new_codename_records(new.data, changes))
                 ELSE ReturnNone

\* `if changes:` in main
truthy(ret) == ~ret.none /\ ret.recs # <<>>

(***************************************************************************)
(* archive                                                                 *)
(***************************************************************************)
\* lines 257-258: [exc, codename]
archive_codename(link) ==
    LET parts == split(link, "/")
        toks  == split(parts[Len(parts)], "_")
    IN  IF "sign" \notin Range(link) THEN [exc |-> "", codename |-> toks[1]]
        ELSE IF Len(toks) < 2 THEN [exc |-> "IndexError", codename |-> <<>>]
        ELSE [exc |-> "", codename |-> toks[2]]

\* archive that stores the new link under every version of the codename
archive_relink(A, update) ==
    LET c == archive_codename(update.download)
    IN  IF c.exc # "" THEN [exc |-> c.exc, files |-> A]
        ELSE IF c.codename \in DOMAIN A
            THEN [exc |-> "",
                  files |-> (c.codename :>
                                [v \in DOMAIN A[c.codename] \cup {update.version}
                                    |-> update.download]) @@ A]
        ELSE [exc |-> "", files |-> (c.codename :> (update.version :> update.download)) @@ A]

\* archive that writes a fresh one-entry map also when the file exists
archive_fresh(A, update) ==
    LET c == archive_codename(update.download)
    IN  IF c.exc # "" THEN [exc |-> c.exc, files |-> A]
        ELSE [exc |-> "", files |-> (c.codename :> (update.version :> update.download)) @@ A]

\* archive(update), A the archive files before: [exc, files]
archive(A, update) ==
    LET link    == update.download
        version == update.version
        c       == archive_codename(link)
    IN  IF c.exc # "" THEN [exc |-> c.exc, files |-> A]
        ELSE IF c.codename \in DOMAIN A
            THEN [exc |-> "",
                  files |-> (c.codename :> ((version :> link) @@ A[c.codename])) @@ A]
        ELSE [exc |-> "", files |-> (c.codename :> (version :> link)) @@ A]   \* FileNotFoundError

(***************************************************************************)
(* Inputs                                                                  *)
(***************************************************************************)
\* the values of data/regions.yml, in the order main iterates them
Regions == <<"in", "eu">>

\* the status codes tg_post tells apart: delivered, and one that is not
StatusCodes == {200, 400}

\* how many runs of main a behaviour holds
MaxRuns == 3

VersionField(code, build) == [text |-> <<"Version", ": ", code, "_", build>>, span |-> <<>>]

NoVersionField == [text |-> <<"Version", ": ">>, span |-> <<>>]

DateField(date) == [text |-> <<"Date", ": ">> \o date, span |-> <<>>]

SizeField(size) == [text |-> <<"Size", ": ">> \o size, span |-> <<size>>]

Md5Field == [text |-> <<"MD5", ": ", "ab12">>, span |-> <<>>]

YearFirst == <<"2020", "/", "01", "/", "02">>

Item(title, fields, download) ==
    [title |-> title, system |-> <<"UI", " ", "1">>, fields |-> fields,
     download |-> download, log |-> <<"Security", "\n", "*", "fix">>]

ItemA1 == Item(<<"realme", " ", "5">>,
               <<VersionField("A", "1.A.1"), DateField(YearFirst), SizeField(<<"3", "G">>), Md5Field>>,
               <<"dl", "/", "A", "_", "1.A.1", ".ozip">>)

ItemA2 == Item(<<"realme", " ", "5">>,
               <<VersionField("A", "1.A.2"), DateField(YearFirst), SizeField(<<"3", "G">>), Md5Field>>,
               <<"dl", "/", "A", "_", "1.A.2", ".ozip">>)

ItemB1 == Item(<<"realme", " ", "6", "/", "6i">>,
               <<VersionField("B", "1.A.1"), DateField(YearFirst), SizeField(<<"3", "G">>)>>,
               <<"dl", "/", "sign", "_", "B", "_", "1.A.1", ".ozip">>)

\* an item whose version field the pattern does not match
ItemU  == Item(<<"realme", " ", "5">>,
               <<NoVersionField, DateField(YearFirst), SizeField(<<"3", "G">>), Md5Field>>,
               <<"dl", "/", "A", "_", "1.A.3", ".ozip">>)

\* an item with the version and the date field only
ItemShort == Item(<<"realme", " ", "5">>,
               <<VersionField("A", "1.A.1"), DateField(YearFirst)>>,
               <<"dl", "/", "A", "_", "1.A.1", ".ozip">>)

\* what get_downloads_html may return for a region
Pages == {<<ItemA1>>, <<ItemA2>>, <<ItemU>>, <<ItemA1, ItemB1>>, <<ItemA1, ItemShort>>}

(***************************************************************************)
(* main                                                                    *)
(***************************************************************************)
NeverWritten == [run |-> 0, data |-> <<>>]

\* the files and the history before the first run
MainInit ==
    /\ pc = "idle"
    /\ runNo = 0
    /\ idx = 1
    /\ cur = [r \in Range(Regions) |-> NoFile]
    /\ old = [r \in Range(Regions) |-> NoFile]
    /\ DEVICES = EmptyMap
    /\ archiveFiles = EmptyMap
    /\ queue = <<>>
    /\ sent = <<>>
    /\ status = 0
    /\ changedRun = {}
    /\ changedDone = {}
    /\ observed = {}
    /\ lastWrite = [r \in Range(Regions) |-> NeverWritten]
    /\ before = [r \in Range(Regions) |-> NeverWritten]
    /\ doneRuns = {}

Init ==
    /\ MainInit
    /\ lastCall = <<>>
    /\ fin = <<>>
    /\ fout = <<>>
    /\ fpc = "in"

mainVars == <<pc, runNo, idx, cur, old, queue, sent, status, changedRun, changedDone,
              observed, lastWrite, before, doneRuns>>

pureVars == <<fin, fout, fpc>>

\* a new process runs main: DEVICES = {} (line 21)
StartRun ==
    /\ pc \in {"idle", "done", "crashed"}
    /\ runNo < MaxRuns
    /\ pc' = "scrape"
    /\ runNo' = runNo + 1
    /\ idx' = 1
    /\ DEVICES' = EmptyMap
    /\ queue' = <<>>
    /\ sent' = <<>>
    /\ status' = 0
    /\ changedRun' = {}
    /\ before' = lastWrite
    /\ UNCHANGED <<cur, old, archiveFiles, changedDone, observed, lastWrite, lastCall, doneRuns, pureVars>>

\* main without the rename of lines 292-293
not_renamed(r) == old[r]

\* lines 292-293: old_<region> after the rename, if there is a file to rename
renamed(r) == IF cur[r].exists THEN cur[r] ELSE old[r]

\* the position of main after the body of a loop over the regions
next_idx == IF idx < Len(Regions) THEN idx + 1 ELSE 1

after_region(same, following) == IF idx < Len(Regions) THEN same ELSE following

\* lines 292-296 for one region, the page fetched and parsed
ScrapeRegion ==
    /\ pc = "scrape"
    /\ \E page \in Pages :
        LET r   == Regions[idx]
            res == parse_html(page, r, DEVICES)
        IN  /\ res.exc = ""
            /\ old' = [old EXCEPT ![r] = renamed(r)]
            /\ cur' = [cur EXCEPT ![r] = File(res.updates)]
            /\ DEVICES' = res.devices
            /\ observed' = observed \cup {<<u.codename, u.version>> : u \in Range(res.updates)}
            /\ lastWrite' = [lastWrite EXCEPT ![r] = [run |-> runNo, data |-> res.updates]]
    /\ idx' = next_idx
    /\ pc' = after_region("scrape", "diff")
    /\ UNCHANGED <<runNo, archiveFiles, queue, sent, status, changedRun, changedDone,
                   before, lastCall, doneRuns, pureVars>>

\* lines 292-294: get_downloads_html raises (no answer, or no div.software-items)
ScrapeFetchFails ==
    /\ pc = "scrape"
    /\ LET r == Regions[idx]
       IN  /\ old' = [old EXCEPT ![r] = renamed(r)]
           /\ cur' = [cur EXCEPT ![r] = NoFile]
    /\ pc' = "crashed"
    /\ UNCHANGED <<runNo, idx, DEVICES, archiveFiles, queue, sent, status, changedRun,
                   changedDone, observed, lastWrite, before, lastCall, doneRuns, pureVars>>

\* lines 292-295: parse_html raises
ScrapeParseRaises ==
    /\ pc = "scrape"
    /\ \E page \in Pages :
        LET r   == Regions[idx]
            res == parse_html(page, r, DEVICES)
        IN  /\ res.exc # ""
            /\ old' = [old EXCEPT ![r] = renamed(r)]
            /\ cur' = [cur EXCEPT ![r] = NoFile]
            /\ DEVICES' = res.devices
    /\ pc' = "crashed"
    /\ UNCHANGED <<runNo, idx, archiveFiles, queue, sent, status, changedRun,
                   changedDone, observed, lastWrite, before, lastCall, doneRuns, pureVars>>

\* lines 299-300, 310-311 for one region
DiffRegion ==
    /\ pc = "diff"
    /\ LET r       == Regions[idx]
           changes == diff_yaml(cur[r], old[r])
       IN  IF truthy(changes)
               THEN /\ queue' = changes.recs
                    /\ changedRun' = changedRun \cup Range(changes.recs)
                    /\ pc' = "notify"
                    /\ idx' = idx
               ELSE /\ queue' = <<>>
                    /\ changedRun' = changedRun
                    /\ pc' = after_region("diff", "finish")
                    /\ idx' = next_idx
    /\ UNCHANGED <<runNo, cur, old, DEVICES, archiveFiles, sent, status, changedDone,
                   observed, lastWrite, before, lastCall, doneRuns, pureVars>>

\* main archiving only what was delivered (archive under `if status == 200`)
archive_if_delivered(A, update, st) ==
    IF st = 200 THEN archive(A, update) ELSE [exc |-> "", files |-> A]

\* lines 306-309: what main does with the archive once tg_post returned st
archive_after_post(A, update, st) == archive(A, update)

\* lines 301-309 for one update of changes
NotifyArchive ==
    /\ pc = "notify"
    /\ queue # <<>>
    /\ \E st \in StatusCodes :
       LET update == Head(queue)
           a      == archive_after_post(archiveFiles, update, st)
           last   == Tail(queue) = <<>>
       IN  IF update.version = <<>>                             \* continue
               THEN /\ UNCHANGED <<sent, status, archiveFiles>>
                    /\ queue' = Tail(queue)
                    /\ pc' = IF last THEN after_region("diff", "finish") ELSE "notify"
                    /\ idx' = IF last THEN next_idx ELSE idx
               ELSE /\ sent' = Append(sent, update)             \* generate_message, tg_post
                    /\ status' = st
                    /\ IF a.exc # ""
                           THEN /\ UNCHANGED <<archiveFiles, queue, idx>>
                                /\ pc' = "crashed"
                           ELSE /\ archiveFiles' = a.files
                                /\ queue' = Tail(queue)
                                /\ pc' = IF last THEN after_region("diff", "finish") ELSE "notify"
                                /\ idx' = IF last THEN next_idx ELSE idx
    /\ UNCHANGED <<runNo, cur, old, DEVICES, changedRun, changedDone, observed,
                   lastWrite, before, lastCall, doneRuns, pureVars>>

\* lines 312-314
Finish ==
    /\ pc = "finish"
    /\ pc' = "done"
    /\ changedDone' = changedDone \cup changedRun
    /\ doneRuns' = doneRuns \cup {runNo}
    /\ UNCHANGED <<runNo, idx, cur, old, DEVICES, archiveFiles, queue, sent, status,
                   changedRun, observed, lastWrite, before, lastCall, pureVars>>

Next ==
    \/ StartRun
    \/ ScrapeRegion
    \/ ScrapeFetchFails
    \/ ScrapeParseRaises
    \/ DiffRegion
    \/ NotifyArchive
    \/ Finish

Spec == Init /\ [][Next]_vars

(***************************************************************************)
(* diff_yaml on its own: any two snapshots of at most MaxSnapshot records  *)
(***************************************************************************)
MaxSnapshot == 2

DiffRecords == {parse_item(i, Regions[1]).update : i \in {ItemA1, ItemA2, ItemB1, ItemU}}

Snapshots == UNION {[1..n -> DiffRecords] : n \in 0..MaxSnapshot}

InitDiff ==
    /\ MainInit
    /\ lastCall = <<>>
    /\ fin \in [new : {File(x) : x \in Snapshots},
                old : {File(x) : x \in Snapshots} \cup {NoFile}]
    /\ fout = ReturnNone
    /\ fpc = "in"

ApplyDiff ==
    /\ fpc = "in"
    /\ fout' = diff_yaml(fin.new, fin.old)
    /\ fpc' = "out"
    /\ UNCHANGED <<mainVars, DEVICES, archiveFiles, lastCall, fin>>

NextDiff == ApplyDiff

SpecDiff == InitDiff /\ [][NextDiff]_vars

(***************************************************************************)
(* parse_html on its own: a page of two items, the first with any prefix   *)
(* of the four positional fields, each well formed or not                  *)
(***************************************************************************)
DayFirst == <<"02", "/", "01", "/", "2020">>

\* FieldChoices[i]: what the i-th div.software-field may hold; the first
\* element of each is the well-formed one
VersionChoices == <<VersionField("A", "1.A.1"), NoVersionField>>

DateChoices == <<DateField(YearFirst), DateField(DayFirst), DateField(<<"2020">>),
                 [text |-> <<"Date">>, span |-> <<>>]>>

SizeChoices == <<SizeField(<<"3", "G">>), SizeField(<<" ", "512", "M">>),
                 [text |-> <<"Size">>, span |-> <<>>]>>

Md5Choices == <<Md5Field, [text |-> <<"MD5">>, span |-> <<>>]>>

FieldChoices == <<VersionChoices, DateChoices, SizeChoices, Md5Choices>>

FieldLists ==
    UNION {{f \in [1..n -> UNION {Range(FieldChoices[i]) : i \in 1..Len(FieldChoices)}] :
               \A i \in 1..n : f[i] \in Range(FieldChoices[i])} :
           n \in 0..Len(FieldChoices)}

ParseTitles == {<<"realme", " ", "5">>, <<" ", "(zhenwo)", "5", " ", " ", "Pro">>}

InitParse ==
    /\ MainInit
    /\ lastCall = <<>>
    /\ fin \in {<<Item(t, f, ItemA1.download), ItemA2>> : t \in ParseTitles, f \in FieldLists}
    /\ fout = [exc |-> "", updates |-> <<>>, devices |-> EmptyMap]
    /\ fpc = "in"

ApplyParse ==
    /\ fpc = "in"
    /\ fout' = parse_html(fin, Regions[1], DEVICES)
    /\ DEVICES' = fout'.devices
    /\ fpc' = "out"
    /\ UNCHANGED <<mainVars, archiveFiles, lastCall, fin>>

NextParse == ApplyParse

SpecParse == InitParse /\ [][NextParse]_vars

(***************************************************************************)
(* update_device on its own: any sequence of registrations                 *)
(***************************************************************************)
\* the longest joined name string kept, in tokens
MaxJoined == 7

RegCodenames == {<<"A">>, <<"B">>}

RegNames == {<<"5">>, <<"6">>, <<"6", "/", "6i">>, <<>>}

InitRegistry ==
    /\ MainInit
    /\ lastCall = <<>>
    /\ fin = <<>>
    /\ fout = <<>>
    /\ fpc = "in"

Register ==
    \E codename \in RegCodenames, device \in RegNames :
        /\ Len(update_device(DEVICES, codename, device)[codename]) <= MaxJoined
        /\ DEVICES' = update_device(DEVICES, codename, device)
        /\ lastCall' = <<codename, device>>
        /\ UNCHANGED <<mainVars, archiveFiles, pureVars>>

NextRegistry == Register

SpecRegistry == InitRegistry /\ [][NextRegistry]_vars

(***************************************************************************)
(* archive on its own: any sequence of archive(update) calls               *)
(***************************************************************************)
ArchVersions == {<<"A", "_", "1.A.1">>, <<"A", "_", "1.A.2">>, Unknown}

ArchLinks == {ItemA1.download, ItemA2.download, ItemB1.download,
              <<"dl", "/", "sign", "_", "A", "_", "1.A.2", ".ozip">>,
              <<"sign", "/", "B">>}

\* archive reads the version and the download of an update only
ArchUpdates == [version : ArchVersions, download : ArchLinks]

NoCall == [version |-> <<>>, download |-> <<>>]

InitArchive ==
    /\ MainInit
    /\ lastCall = NoCall
    /\ fin = <<>>
    /\ fout = <<>>
    /\ fpc = "in"

\* one call of archive; when it raises, no file is written
ArchiveCall ==
    \E update \in ArchUpdates :
        /\ archiveFiles' = archive(archiveFiles, update).files
        /\ lastCall' = update
        /\ UNCHANGED <<mainVars, DEVICES, pureVars>>

NextArchive == ArchiveCall

SpecArchive == InitArchive /\ [][NextArchive]_vars

(***************************************************************************)
(* Properties of main (specification Spec)                                 *)
(***************************************************************************)
\* C5: when old_<region> is absent at the diff of a region, diff_yaml returns
\* None without raising, and the step main takes posts nothing, archives
\* nothing and moves to the next region, or past the loop; no step posts (and
\* so none archives) an update of a region whose old_ file is absent
FirstRunRegionIsSkipped ==
    [][/\ \A i \in 1..Len(sent') :
             i > Len(sent) => ~sent'[i].region \in {r \in Range(Regions) : ~old[r].exists}
       /\ (pc = "diff" /\ ~old[Regions[idx]].exists)
            => /\ diff_yaml(cur[Regions[idx]], old[Regions[idx]]) = ReturnNone
               /\ sent' = sent
               /\ archiveFiles' = archiveFiles
               /\ queue' = <<>>
               /\ pc' = (IF idx < Len(Regions) THEN "diff" ELSE "finish")
               /\ idx' = (IF idx < Len(Regions) THEN idx + 1 ELSE 1)]_vars

\* a first region with a non-empty first snapshot was skipped, the second is next
FirstRunRegionSkippedWitness ==
    /\ pc = "diff"
    /\ idx = 2
    /\ ~old[Regions[1]].exists
    /\ cur[Regions[1]].exists
    /\ cur[Regions[1]].data # <<>>
    /\ sent = <<>>

\* C8, as claimed: once a run has completed, every <<codename, version>> of
\* every snapshot written so far is in that codename's archive map
ArchiveHoldsEveryObservedVersion ==
    pc = "done"
        => \A p \in observed :
               p[1] \in DOMAIN archiveFiles /\ p[2] \in DOMAIN archiveFiles[p[1]]

\* C8, amended: every update diff_yaml returned in a run that completed, its
\* version not empty, has its version in the archive map of the codename that
\* archive derives from its download link
ArchiveHoldsEveryReportedChange ==
    \A u \in changedDone :
        u.version # <<>>
            => LET c == archive_codename(u.download)
               IN  /\ c.exc = ""
                   /\ c.codename \in DOMAIN archiveFiles
                   /\ u.version \in DOMAIN archiveFiles[c.codename]

\* a completed run reported two updates whose links give one codename
ReportedChangeWitness ==
    /\ pc = "done"
    /\ \E u, w \in changedDone :
          /\ u.version # w.version
          /\ archive_codename(u.download) = archive_codename(w.download)

\* C9: no update whose version is "Unknown" is handed to generate_message/tg_post
NoNotificationForUnknownVersion ==
    \A i \in 1..Len(sent) : sent[i].version # Unknown

\* C10, as claimed: at the diff of a region in a run that follows a completed
\* run, the current file is what this run wrote and old_<region> is what the
\* run before this one wrote as current; every region is written before any diff
PreviousIsPrecedingRunsSnapshot ==
    (pc = "diff" /\ doneRuns # {})
        => LET r == Regions[idx]
           IN  /\ \A q \in Range(Regions) :
                     lastWrite[q].run = runNo /\ cur[q] = File(lastWrite[q].data)
               /\ old[r].exists
               /\ before[r].run = runNo - 1
               /\ old[r].data = before[r].data

\* C10, amended: ... and old_<region> is the snapshot written last for the
\* region by an earlier run; it is absent when no earlier run wrote one
PreviousIsLastWrittenSnapshot ==
    pc = "diff"
        => LET r == Regions[idx]
           IN  /\ \A q \in Range(Regions) :
                     lastWrite[q].run = runNo /\ cur[q] = File(lastWrite[q].data)
               /\ before[r].run > 0 => old[r] = File(before[r].data)
               /\ before[r].run = 0 => ~old[r].exists

\* a region is diffed against a snapshot that the run before this one did not write
PreviousFromOlderRunWitness ==
    /\ pc = "diff"
    /\ doneRuns # {}
    /\ before[Regions[idx]].run > 0
    /\ before[Regions[idx]].run < runNo - 1
    /\ old[Regions[idx]].data # cur[Regions[idx]].data

(***************************************************************************)
(* Properties of archive (specification SpecArchive)                       *)
(***************************************************************************)
\* C1: no call of archive removes a codename's archive or a version of it:
\* every codename and every version present before a step is present after it
ArchiveNeverRemoves ==
    [][\A c \in DOMAIN archiveFiles :
          /\ c \in DOMAIN archiveFiles'
          /\ DOMAIN archiveFiles[c] \subseteq DOMAIN archiveFiles'[c]]_vars

\* archive added a version to a map that held another one, which is still there
ArchiveGrewWitness ==
    \E c \in DOMAIN archiveFiles :
        /\ lastCall.version \in DOMAIN archiveFiles[c]
        /\ Cardinality(DOMAIN archiveFiles[c]) >= 2
        /\ Cardinality(DOMAIN archiveFiles) >= 2

\* C2, as claimed: a version -> link pair of a codename's map is the same
\* after every call of archive
ArchiveNeverRewritesLink ==
    [][\A c \in DOMAIN archiveFiles : \A v \in DOMAIN archiveFiles[c] :
          /\ c \in DOMAIN archiveFiles'
          /\ v \in DOMAIN archiveFiles'[c]
          /\ archiveFiles'[c][v] = archiveFiles[c][v]]_vars

\* C2, amended: a version of a codename's map stays in it, and its link is
\* the same after a call of archive unless the call is for that version with
\* a link that gives that codename: then the link is the link of the call
ArchiveRewritesOnlyArchivedVersion ==
    [][\A c \in DOMAIN archiveFiles : \A v \in DOMAIN archiveFiles[c] :
          /\ c \in DOMAIN archiveFiles'
          /\ v \in DOMAIN archiveFiles'[c]
          /\ \/ archiveFiles'[c][v] = archiveFiles[c][v]
             \/ /\ lastCall'.version = v
                /\ archive_codename(lastCall'.download) = [exc |-> "", codename |-> c]
                /\ archiveFiles'[c][v] = lastCall'.download]_vars

\* the last call archived version "A_1.A.2" with the link of "A_1.A.1" into
\* a map that holds both versions, and the map holds the link of that call
ArchiveRewrittenWitness ==
    /\ <<"A">> \in DOMAIN archiveFiles
    /\ DOMAIN archiveFiles[<<"A">>] = {<<"A", "_", "1.A.1">>, <<"A", "_", "1.A.2">>}
    /\ archiveFiles[<<"A">>][<<"A", "_", "1.A.1">>] = ItemA1.download
    /\ archiveFiles[<<"A">>][<<"A", "_", "1.A.2">>] = ItemA1.download
    /\ lastCall = [version |-> <<"A", "_", "1.A.2">>, download |-> ItemA1.download]

(***************************************************************************)
(* Properties of diff_yaml (specification SpecDiff)                        *)
(***************************************************************************)
\* the records of snapshot at the positions in at, in snapshot order, are recs
IsSelection(recs, snapshot, at) ==
    /\ Len(recs) = Cardinality(at)
    /\ \E f \in [1..Len(recs) -> at] :
          /\ \A j, k \in 1..Len(recs) : j < k => f[j] < f[k]
          /\ \A k \in 1..Len(recs) : recs[k] = snapshot[f[k]]

\* C3: both snapshots present and of equal length: diff_yaml returns the list
\* of the current records at the positions where the versions differ, in
\* current order (the empty list when no position differs)
DiffEqualLengthIsPositional ==
    (fpc = "out" /\ fin.old.exists /\ Len(fin.new.data) = Len(fin.old.data))
        => /\ ~fout.none
           /\ IsSelection(fout.recs, fin.new.data,
                          {i \in 1..Len(fin.new.data) :
                              fin.new.data[i].version # fin.old.data[i].version})

\* two records of one codename at both positions, the version changed at the second
DiffEqualLengthWitness ==
    /\ fpc = "out"
    /\ fin.old.exists
    /\ Len(fin.new.data) = 2
    /\ Len(fin.old.data) = 2
    /\ fin.new.data[1] = fin.old.data[1]
    /\ fin.new.data[2].codename = fin.old.data[2].codename
    /\ fout.recs = <<fin.new.data[2]>>

\* C4: both snapshots present and of different length: diff_yaml returns the
\* current records whose codename no previous record has, each once, in
\* current order, and None when there is no such record
DiffUnequalLengthEmitsOnce ==
    (fpc = "out" /\ fin.old.exists /\ Len(fin.new.data) # Len(fin.old.data))
        => LET fresh == {i \in 1..Len(fin.new.data) :
                            \A j \in 1..Len(fin.old.data) :
                                fin.new.data[i].codename # fin.old.data[j].codename}
           IN  IF fresh = {} THEN fout.none
               ELSE ~fout.none /\ IsSelection(fout.recs, fin.new.data, fresh)

(***************************************************************************)
(* Properties of parse_html (specification SpecParse)                      *)
(***************************************************************************)
\* C7: a first item that lacks the md5, the size or the date field, its other
\* fields well formed: parse_html does not raise, returns a record for it and
\* for the item after it, and the record holds "Unknown" for each missing field
MissingFieldYieldsUnknown ==
    LET fields == fin[1].fields
        n      == Len(fields)
    IN  (fpc = "out" /\ n < Len(FieldChoices) /\ \A i \in 1..n : fields[i] = FieldChoices[i][1])
            => /\ fout.exc = ""
               /\ Len(fout.updates) = Len(fin)
               /\ fout.updates[1].md5 = Unknown
               /\ n < 3 => fout.updates[1].size = Unknown
               /\ n < 2 => fout.updates[1].date = Unknown

(***************************************************************************)
(* Properties of update_device (specification SpecRegistry)                *)
(***************************************************************************)
\* C6: a call of update_device with the codename and the device of the call
\* before it leaves DEVICES as it is
RegisterTwiceIsRegisterOnce ==
    [][lastCall' = lastCall => DEVICES' = DEVICES]_vars

====
